---- MODULE Spec2Model ----
(***************************************************************************)
(* Staking ledger of the YOT/YOS program: process_stake, process_unstake   *)
(* and process_harvest as they stand in the repository's three complete    *)
(* handler sets:                                                           *)
(*   lib_new_fix           archive/old_fixes/lib_new_fix.rs (all handlers) *)
(*   integrated_linear_fix archive/INTEGRATED_LINEAR_FIX.rs (harvest and   *)
(*                         unstake; "copy these functions to replace the   *)
(*                         existing ones in lib.rs"), stake as lib_new_fix *)
(*   decimal_fix_v3        archive/DECIMAL_FIX_V3_COMPLETE.rs (harvest and *)
(*                         unstake), stake as lib_new_fix                  *)
(* One behaviour runs one build.  An instruction is one action: the        *)
(* handler runs to its return; when it returns Err the host discards the   *)
(* account writes and transfers it made (an instruction is atomic), and    *)
(* `last` keeps what the handler did on the way (its log) and returned.    *)
(*                                                                         *)
(* Amounts are u64 in the code.  MaxU64 stands for u64::MAX at the model's *)
(* scale: every token amount, ledger amount and reward lives in 0..MaxU64, *)
(* checked_add fails above it, saturating_add stops at it, a u128 -> u64   *)
(* cast wraps modulo MaxU64 + 1 and an f64 -> u64 cast saturates at it.    *)
(* Rates are the program's own scaled integers (parts of RATE_DIVISOR).    *)
(***************************************************************************)
EXTENDS Integers, Sequences, FiniteSets, TLC

VARIABLES build, now, config, accounts, user_yot, pool_yot, pool_yos, last, audit, calc

vars == <<build, now, config, accounts, user_yot, pool_yot, pool_yos, last, audit, calc>>

\* ---------------------------------------------------------------- bounds
\* u64::MAX at the model's scale
MaxU64 == 3
\* the last clock value
MaxTime == 2
\* the three thresholds process_initialize is given
Threshold == 2
\* what the program's YOS account holds at the start
RewardPoolFunding == 2
\* the books of staked amounts are kept up to this total
MaxTotalStaked == 6
\* the longest interval a reward is computed over
MaxElapsed == 3

\* ------------------------------------------------------ program constants
\* the divisor of stake_rate_per_second (parts per million)
RATE_DIVISOR == 1000000
\* INTEGRATED_LINEAR_FIX: "convert from percentage to decimal"
PERCENT_DIVISOR == 100
\* 10^9: raw units per token (9 decimals)
TOKEN_DECIMALS_FACTOR == 1000000000
\* the rate the sources document: "12000 basis points ... ~45% per year"
DOCUMENTED_RATE == 12000

Users == {"u1", "u2"}
Slots == {"a1"}
Builds == {"lib_new_fix", "integrated_linear_fix", "decimal_fix_v3"}
\* amounts an instruction may carry: just below the thresholds, and at them
Amounts == {Threshold - 1, Threshold}
\* stake_rate_per_second values: 1 and 100 reward units per staked unit and second
Rates == {RATE_DIVISOR, 100 * RATE_DIVISOR}
\* the token account a Stake names as program_yot_token_account
Dests == {"pool", "own"}

Min(a, b) == IF a < b THEN a ELSE b

\* ------------------------------------------------------------ u64 helpers
\* u64::checked_add: None (here -1) on overflow
checked_add(a, b) == IF a + b > MaxU64 THEN -1 ELSE a + b
\* u64::checked_sub: None (here -1) on underflow
checked_sub(a, b) == IF a < b THEN -1 ELSE a - b
\* u64::saturating_add
saturating_add(a, b) == Min(a + b, MaxU64)
\* u64::saturating_sub
saturating_sub(a, b) == IF a < b THEN 0 ELSE a - b
\* i64::saturating_sub and i64::checked_sub of two clock values: the difference
\* (they differ from it only beyond the i64 range, which no clock value nears)
i64_sub(a, b) == a - b
\* `x as u64` of a u128: keeps the low 64 bits
u128_as_u64(x) == x % (MaxU64 + 1)
\* `x as u64` of a non-negative f64: truncates, saturating at u64::MAX
f64_as_u64(x) == Min(x, MaxU64)

\* ------------------------------------------------------------ the records
\* an account whose data is empty (never written)
EmptyAccount == [exists |-> FALSE, owner |-> "none", staked_amount |-> 0,
                 last_harvest_time |-> 0, last_stake_time |-> 0,
                 total_harvested |-> 0]

Ok == "Ok"

NoOp == [op |-> "none", at |-> 0, caller |-> "none", is_signer |-> FALSE,
         authority_ok |-> FALSE, slot |-> "none", amount |-> 0, dest |-> "none",
         err |-> Ok, pre |-> EmptyAccount, pre_pool_yot |-> 0, pre_pool_yos |-> 0,
         rewards |-> 0, principal_out |-> 0, rewards_out |-> 0, deposit |-> 0,
         log |-> <<>>]

\* what a handler hands back: its result, the staking record it serialized last
\* (the record as loaded when it wrote nothing), and what it moved
Outcome(err, acct, rewards, principal_out, rewards_out, deposit, log) ==
    [err |-> err, acct |-> acct, rewards |-> rewards,
     principal_out |-> principal_out, rewards_out |-> rewards_out,
     deposit |-> deposit, log |-> log]

\* a handler that returned Err: nothing it wrote or moved is kept
Reject(err, acct, rewards, log) == Outcome(err, acct, rewards, 0, 0, 0, log)

\* ------------------------------------------------------- reward formulas
\* a reward that compounds: the elapsed time enters twice
rewards_lib_new_fix_compound(staked_amount, time_staked, stake_rate_per_second) ==
    u128_as_u64((staked_amount * stake_rate_per_second * time_staked * time_staked)
                  \div RATE_DIVISOR)

\* lib_new_fix process_harvest: u128 product, / 1_000_000, `as u64`
\* (the unwrap_or(0) of its checked_mul is taken only when the u128 product
\* overflows, which needs rate * elapsed above 2^64: not in the modelled range)
rewards_lib_new_fix(staked_amount, time_staked, stake_rate_per_second) ==
    u128_as_u64((staked_amount * stake_rate_per_second * time_staked) \div RATE_DIVISOR)

\* INTEGRATED_LINEAR_FIX: f64, rate / 1_000_000 / 100, principal / 10^9, * 10^9.
\* The f64 evaluation equals the exact quotient for every input of the model.
rewards_integrated(staked_amount, time_staked_seconds, stake_rate_per_second) ==
    f64_as_u64((staked_amount * stake_rate_per_second * time_staked_seconds)
                 \div (RATE_DIVISOR * PERCENT_DIVISOR))

\* a reward with one unit granted whatever is staked
calculate_rewards_plus_one(staked_amount, time_staked_seconds, stake_rate_per_second) ==
    f64_as_u64((staked_amount * stake_rate_per_second * time_staked_seconds)
                 \div RATE_DIVISOR + 1)

\* DECIMAL_FIX_V3_COMPLETE calculate_rewards: f64, rate / 1_000_000
calculate_rewards(staked_amount, time_staked_seconds, stake_rate_per_second) ==
    f64_as_u64((staked_amount * stake_rate_per_second * time_staked_seconds)
                 \div RATE_DIVISOR)

\* lib_new_fix get_wallet_adjusted_yos_amount
get_wallet_adjusted_yos_amount(amount) == amount \div TOKEN_DECIMALS_FACTOR

\* ------------------------------------------------------------ process_stake
\* the StakingAccount process_stake builds when the account's data is empty
new_staking_account(caller) ==
    [exists |-> TRUE, owner |-> caller, staked_amount |-> 0,
     last_harvest_time |-> now, last_stake_time |-> now, total_harvested |-> 0]

\* a Stake that restarts the reward window of the record it adds to
stake_update_restarts_window(acct, amount) ==
    [acct EXCEPT !.staked_amount = saturating_add(@, amount),
                 !.last_stake_time = now,
                 !.last_harvest_time = now]

\* a Stake that credits one unit more than was deposited
stake_update_plus_one(acct, amount) ==
    [acct EXCEPT !.staked_amount = saturating_add(@, amount + 1),
                 !.last_stake_time = now]

\* "Update staking information"
stake_update(acct, amount) ==
    [acct EXCEPT !.staked_amount = saturating_add(@, amount),
                 !.last_stake_time = now]

\* a threshold check that lets the amount just under the threshold through
below_stake_threshold_off_by_one(amount) == amount + 1 < config.stake_threshold

\* "Check if amount meets stake threshold"
below_stake_threshold(amount) == amount < config.stake_threshold

\* a Stake that makes its caller the owner of the record it adds to
process_stake_takes_over(caller, is_signer, slot, amount) ==
    LET data == accounts[slot]
        staking_account == IF ~data.exists THEN new_staking_account(caller)
                           ELSE [data EXCEPT !.owner = caller]
        updated == stake_update(staking_account, amount)
    IN  IF ~is_signer
          THEN Reject("MissingRequiredSignature", data, 0, <<"fail:signature">>)
        ELSE IF below_stake_threshold(amount)
          THEN Reject("InvalidArgument", data, 0, <<"fail:threshold">>)
        ELSE IF user_yot[caller] < amount
          THEN Reject("TokenInsufficientFunds", data, 0, <<"write", "fail:transfer">>)
        ELSE Outcome(Ok, updated, 0, 0, 0, amount, <<"write", "transfer_yot">>)

\* a Stake that asks the token program for the transfer first and writes the
\* staking record after it
process_stake_transfer_first(caller, is_signer, slot, amount) ==
    LET data == accounts[slot]
        staking_account == IF ~data.exists THEN new_staking_account(caller) ELSE data
        updated == stake_update(staking_account, amount)
    IN  IF ~is_signer
          THEN Reject("MissingRequiredSignature", data, 0, <<"fail:signature">>)
        ELSE IF below_stake_threshold(amount)
          THEN Reject("InvalidArgument", data, 0, <<"fail:threshold">>)
        ELSE IF user_yot[caller] < amount
          THEN Reject("TokenInsufficientFunds", data, 0, <<"fail:transfer">>)
        ELSE Outcome(Ok, updated, 0, 0, 0, amount, <<"transfer_yot", "write">>)

\* lib_new_fix process_stake
process_stake(caller, is_signer, slot, amount) ==
    LET data == accounts[slot]
        staking_account == IF ~data.exists THEN new_staking_account(caller) ELSE data
        updated == stake_update(staking_account, amount)
    IN  IF ~is_signer
          THEN Reject("MissingRequiredSignature", data, 0, <<"fail:signature">>)
        ELSE IF below_stake_threshold(amount)
          THEN Reject("InvalidArgument", data, 0, <<"fail:threshold">>)
        ELSE IF user_yot[caller] < amount
          THEN Reject("TokenInsufficientFunds", data, 0, <<"write", "fail:transfer">>)
        ELSE Outcome(Ok, updated, 0, 0, 0, amount, <<"write", "transfer_yot">>)

\* --------------------------------------------------- the program authority
\* Pubkey::find_program_address: the address is a function of the seeds and the
\* program id, and of nothing else
find_program_address(seeds, program_id) == <<"pda", seeds, program_id>>

\* "Get authority PDA bump seed for signing" / "Calculate PDA for program authority"
authority_pda == find_program_address("authority", "program_id")

\* the accounts a caller can pass as program_authority
AuthorityAccounts == {authority_pda, find_program_address("authority", "other_program")}

\* an authority check that accepts any account
authority_mismatch_unchecked(program_authority) == FALSE

\* "Verify the derived address matches our expected authority"
authority_mismatch(program_authority) == authority_pda # program_authority

\* ------------------------------------------ lib_new_fix unstake and harvest
\* "Check if amount meets unstake threshold"
below_unstake_threshold(amount) == amount < config.unstake_threshold

\* a balance check that lets one unit more than is staked through
insufficient_stake_off_by_one(acct, amount) == acct.staked_amount + 1 < amount

\* "Check if user has enough staked"
insufficient_stake(acct, amount) == acct.staked_amount < amount

process_unstake_lib_new_fix(caller, is_signer, program_authority, slot, amount) ==
    LET data == accounts[slot]
        updated == [data EXCEPT !.staked_amount = saturating_sub(@, amount)]
    IN  IF ~is_signer
          THEN Reject("MissingRequiredSignature", data, 0, <<"fail:signature">>)
        ELSE IF below_unstake_threshold(amount)
          THEN Reject("InvalidArgument", data, 0, <<"fail:threshold">>)
        ELSE IF ~data.exists
          THEN Reject("BorshIoError", data, 0, <<"fail:no_account">>)
        ELSE IF insufficient_stake(data, amount)
          THEN Reject("InsufficientFunds", data, 0, <<"fail:balance">>)
        ELSE IF authority_mismatch(program_authority)
          THEN Reject("InvalidArgument", data, 0, <<"write", "fail:authority">>)
        ELSE IF pool_yot < amount
          THEN Reject("TokenInsufficientFunds", data, 0, <<"write", "fail:transfer">>)
        ELSE Outcome(Ok, updated, 0, amount, 0, 0, <<"write", "transfer_yot">>)

\* a threshold check that lets the reward just under the threshold through
below_harvest_threshold_off_by_one(rewards) == rewards + 1 < config.harvest_threshold

\* "Check if rewards meet threshold"
below_harvest_threshold(rewards) == rewards < config.harvest_threshold

process_harvest_lib_new_fix(caller, is_signer, program_authority, slot) ==
    LET data == accounts[slot]
        time_staked == i64_sub(now, data.last_harvest_time)
        rewards == rewards_lib_new_fix(data.staked_amount, time_staked,
                                       config.stake_rate_per_second)
        updated == [data EXCEPT !.last_harvest_time = now]
        adjusted_rewards == get_wallet_adjusted_yos_amount(rewards)
    IN  IF ~is_signer
          THEN Reject("MissingRequiredSignature", data, 0, <<"fail:signature">>)
        ELSE IF ~data.exists
          THEN Reject("BorshIoError", data, 0, <<"fail:no_account">>)
        ELSE IF below_harvest_threshold(rewards)
          THEN Reject("InvalidArgument", data, rewards, <<"fail:threshold">>)
        ELSE IF authority_mismatch(program_authority)
          THEN Reject("InvalidArgument", data, rewards, <<"write", "fail:authority">>)
        ELSE IF pool_yos < adjusted_rewards
          THEN Reject("TokenInsufficientFunds", data, rewards, <<"write", "fail:transfer">>)
        ELSE Outcome(Ok, updated, rewards, 0, adjusted_rewards, 0,
                     <<"write", "transfer_yos">>)

\* ------------------------- INTEGRATED_LINEAR_FIX / DECIMAL_FIX_V3_COMPLETE
\* the reward formula of the build's harvest and unstake handlers
build_rewards(staked_amount, time_staked_seconds, stake_rate_per_second) ==
    IF build = "integrated_linear_fix"
      THEN rewards_integrated(staked_amount, time_staked_seconds, stake_rate_per_second)
      ELSE calculate_rewards(staked_amount, time_staked_seconds, stake_rate_per_second)

\* "Verify staking account ownership"
not_owner(acct, caller) == acct.owner # caller

\* "Check if program has enough YOS tokens to transfer rewards"
pool_covers(program_yos_balance, raw_rewards) == program_yos_balance >= raw_rewards

\* a Harvest that closes the window one second ahead of the clock
harvest_update_ahead(acct, raw_rewards) ==
    [acct EXCEPT !.last_harvest_time = now + 1,
                 !.total_harvested = checked_add(@, raw_rewards)]

\* a Harvest that books the reward and leaves the window open
harvest_update_keeps_window(acct, raw_rewards) ==
    [acct EXCEPT !.total_harvested = checked_add(@, raw_rewards)]

\* process_harvest: "Update staking data"
harvest_update(acct, raw_rewards) ==
    [acct EXCEPT !.last_harvest_time = now,
                 !.total_harvested = checked_add(@, raw_rewards)]

\* a Harvest that pays one unit per staked unit and second, whatever rate the
\* program state holds
process_harvest_fixed_rate(caller, is_signer, program_authority, slot) ==
    LET data == accounts[slot]
        time_staked_seconds == i64_sub(now, data.last_harvest_time)
        raw_rewards == build_rewards(data.staked_amount, time_staked_seconds,
                                     RATE_DIVISOR)
        updated == harvest_update(data, raw_rewards)
    IN  IF ~is_signer
          THEN Reject("MissingRequiredSignature", data, 0, <<"fail:signature">>)
        ELSE IF authority_mismatch(program_authority)
          THEN Reject("InvalidAccountData", data, 0, <<"fail:authority">>)
        ELSE IF ~data.exists
          THEN Reject("BorshIoError", data, 0, <<"fail:no_account">>)
        ELSE IF not_owner(data, caller)
          THEN Reject("InvalidAccountData", data, 0, <<"fail:owner">>)
        ELSE IF below_harvest_threshold(raw_rewards)
          THEN Reject("InsufficientFunds", data, raw_rewards, <<"fail:threshold">>)
        ELSE IF ~pool_covers(pool_yos, raw_rewards)
          THEN Reject("InsufficientFunds", data, raw_rewards, <<"fail:pool">>)
        ELSE IF updated.total_harvested = -1
          THEN Reject("InvalidArgument", data, raw_rewards, <<"fail:overflow">>)
        ELSE Outcome(Ok, updated, raw_rewards, 0, raw_rewards, 0,
                     <<"write", "transfer_yos">>)

\* INTEGRATED_LINEAR_FIX / DECIMAL_FIX_V3_COMPLETE process_harvest
process_harvest(caller, is_signer, program_authority, slot) ==
    LET data == accounts[slot]
        time_staked_seconds == i64_sub(now, data.last_harvest_time)
        raw_rewards == build_rewards(data.staked_amount, time_staked_seconds,
                                     config.stake_rate_per_second)
        updated == harvest_update(data, raw_rewards)
    IN  IF ~is_signer
          THEN Reject("MissingRequiredSignature", data, 0, <<"fail:signature">>)
        ELSE IF authority_mismatch(program_authority)
          THEN Reject("InvalidAccountData", data, 0, <<"fail:authority">>)
        ELSE IF ~data.exists
          THEN Reject("BorshIoError", data, 0, <<"fail:no_account">>)
        ELSE IF not_owner(data, caller)
          THEN Reject("InvalidAccountData", data, 0, <<"fail:owner">>)
        ELSE IF below_harvest_threshold(raw_rewards)
          THEN Reject("InsufficientFunds", data, raw_rewards, <<"fail:threshold">>)
        ELSE IF ~pool_covers(pool_yos, raw_rewards)
          THEN Reject("InsufficientFunds", data, raw_rewards, <<"fail:pool">>)
        ELSE IF updated.total_harvested = -1
          THEN Reject("InvalidArgument", data, raw_rewards, <<"fail:overflow">>)
        ELSE Outcome(Ok, updated, raw_rewards, 0, raw_rewards, 0,
                     <<"write", "transfer_yos">>)

\* an Unstake whose sum of rewards wraps around at u64::MAX
unstake_update_wrapping(acct, amount, raw_rewards) ==
    [acct EXCEPT !.last_harvest_time = now,
                 !.total_harvested = u128_as_u64(@ + raw_rewards),
                 !.staked_amount = checked_sub(@, amount)]

\* an Unstake whose sum of rewards stops at u64::MAX
unstake_update_saturating(acct, amount, raw_rewards) ==
    [acct EXCEPT !.last_harvest_time = now,
                 !.total_harvested = saturating_add(@, raw_rewards),
                 !.staked_amount = checked_sub(@, amount)]

\* process_unstake: "Update staking data", "Only add to total harvested if there
\* are rewards to claim", "Reduce staked amount"
unstake_update(acct, amount, raw_rewards) ==
    [acct EXCEPT !.last_harvest_time = now,
                 !.total_harvested = IF raw_rewards > 0
                                       THEN checked_add(@, raw_rewards) ELSE @,
                 !.staked_amount = checked_sub(@, amount)]

\* an Unstake that adds to total_harvested the reward it is going to pay, and
\* nothing when the pool does not cover the reward
process_unstake_books_paid_reward(caller, is_signer, program_authority, slot, amount) ==
    LET data == accounts[slot]
        time_staked_seconds == i64_sub(now, data.last_harvest_time)
        raw_rewards == build_rewards(data.staked_amount, time_staked_seconds,
                                     config.stake_rate_per_second)
        paid == IF raw_rewards > 0 /\ pool_covers(pool_yos, raw_rewards)
                  THEN raw_rewards ELSE 0
        updated == unstake_update(data, amount, paid)
    IN  IF ~is_signer
          THEN Reject("MissingRequiredSignature", data, 0, <<"fail:signature">>)
        ELSE IF authority_mismatch(program_authority)
          THEN Reject("InvalidAccountData", data, 0, <<"fail:authority">>)
        ELSE IF ~data.exists
          THEN Reject("BorshIoError", data, 0, <<"fail:no_account">>)
        ELSE IF not_owner(data, caller)
          THEN Reject("InvalidAccountData", data, 0, <<"fail:owner">>)
        ELSE IF insufficient_stake(data, amount)
          THEN Reject("InsufficientFunds", data, 0, <<"fail:balance">>)
        ELSE IF updated.total_harvested = -1 \/ updated.staked_amount = -1
          THEN Reject("InvalidArgument", data, raw_rewards, <<"fail:overflow">>)
        ELSE IF pool_yot < amount
          THEN Reject("TokenInsufficientFunds", data, raw_rewards,
                      <<"write", "fail:transfer">>)
        ELSE Outcome(Ok, updated, raw_rewards, amount, paid, 0,
                     IF raw_rewards = 0 THEN <<"write", "transfer_yot">>
                     ELSE IF paid > 0 THEN <<"write", "transfer_yot", "transfer_yos">>
                     ELSE <<"write", "transfer_yot", "skip_yos">>)

\* an Unstake that subtracts the amount first and computes the reward on what
\* is left
process_unstake_reward_on_remainder(caller, is_signer, program_authority, slot, amount) ==
    LET data == accounts[slot]
        time_staked_seconds == i64_sub(now, data.last_harvest_time)
        raw_rewards == build_rewards(saturating_sub(data.staked_amount, amount),
                                     time_staked_seconds,
                                     config.stake_rate_per_second)
        updated == unstake_update(data, amount, raw_rewards)
        paid == IF raw_rewards > 0 /\ pool_covers(pool_yos, raw_rewards)
                  THEN raw_rewards ELSE 0
    IN  IF ~is_signer
          THEN Reject("MissingRequiredSignature", data, 0, <<"fail:signature">>)
        ELSE IF authority_mismatch(program_authority)
          THEN Reject("InvalidAccountData", data, 0, <<"fail:authority">>)
        ELSE IF ~data.exists
          THEN Reject("BorshIoError", data, 0, <<"fail:no_account">>)
        ELSE IF not_owner(data, caller)
          THEN Reject("InvalidAccountData", data, 0, <<"fail:owner">>)
        ELSE IF insufficient_stake(data, amount)
          THEN Reject("InsufficientFunds", data, 0, <<"fail:balance">>)
        ELSE IF updated.total_harvested = -1 \/ updated.staked_amount = -1
          THEN Reject("InvalidArgument", data, raw_rewards, <<"fail:overflow">>)
        ELSE IF pool_yot < amount
          THEN Reject("TokenInsufficientFunds", data, raw_rewards,
                      <<"write", "fail:transfer">>)
        ELSE Outcome(Ok, updated, raw_rewards, amount, paid, 0,
                     IF raw_rewards = 0 THEN <<"write", "transfer_yot">>
                     ELSE IF paid > 0 THEN <<"write", "transfer_yot", "transfer_yos">>
                     ELSE <<"write", "transfer_yot", "skip_yos">>)

\* an Unstake that treats the principal transfer as it treats the reward
\* transfer: when it fails the handler goes on and returns Ok
process_unstake_best_effort_principal(caller, is_signer, program_authority, slot, amount) ==
    LET data == accounts[slot]
        time_staked_seconds == i64_sub(now, data.last_harvest_time)
        raw_rewards == build_rewards(data.staked_amount, time_staked_seconds,
                                     config.stake_rate_per_second)
        updated == unstake_update(data, amount, raw_rewards)
        paid == IF raw_rewards > 0 /\ pool_covers(pool_yos, raw_rewards)
                  THEN raw_rewards ELSE 0
    IN  IF ~is_signer
          THEN Reject("MissingRequiredSignature", data, 0, <<"fail:signature">>)
        ELSE IF authority_mismatch(program_authority)
          THEN Reject("InvalidAccountData", data, 0, <<"fail:authority">>)
        ELSE IF ~data.exists
          THEN Reject("BorshIoError", data, 0, <<"fail:no_account">>)
        ELSE IF not_owner(data, caller)
          THEN Reject("InvalidAccountData", data, 0, <<"fail:owner">>)
        ELSE IF insufficient_stake(data, amount)
          THEN Reject("InsufficientFunds", data, 0, <<"fail:balance">>)
        ELSE IF updated.total_harvested = -1 \/ updated.staked_amount = -1
          THEN Reject("InvalidArgument", data, raw_rewards, <<"fail:overflow">>)
        ELSE IF pool_yot < amount
          THEN Outcome(Ok, updated, raw_rewards, 0, paid, 0,
                       <<"write", "fail:transfer", "transfer_yos">>)
        ELSE Outcome(Ok, updated, raw_rewards, amount, paid, 0,
                     IF raw_rewards = 0 THEN <<"write", "transfer_yot">>
                     ELSE IF paid > 0 THEN <<"write", "transfer_yot", "transfer_yos">>
                     ELSE <<"write", "transfer_yot", "skip_yos">>)

\* an Unstake that keeps the window open when it skips the reward, so that the
\* skipped reward stays due
process_unstake_defers_skipped_reward(caller, is_signer, program_authority, slot, amount) ==
    LET data == accounts[slot]
        time_staked_seconds == i64_sub(now, data.last_harvest_time)
        raw_rewards == build_rewards(data.staked_amount, time_staked_seconds,
                                     config.stake_rate_per_second)
        paid == IF raw_rewards > 0 /\ pool_covers(pool_yos, raw_rewards)
                  THEN raw_rewards ELSE 0
        written == unstake_update(data, amount, raw_rewards)
        updated == IF raw_rewards > 0 /\ paid = 0
                     THEN [written EXCEPT !.last_harvest_time = data.last_harvest_time]
                     ELSE written
    IN  IF ~is_signer
          THEN Reject("MissingRequiredSignature", data, 0, <<"fail:signature">>)
        ELSE IF authority_mismatch(program_authority)
          THEN Reject("InvalidAccountData", data, 0, <<"fail:authority">>)
        ELSE IF ~data.exists
          THEN Reject("BorshIoError", data, 0, <<"fail:no_account">>)
        ELSE IF not_owner(data, caller)
          THEN Reject("InvalidAccountData", data, 0, <<"fail:owner">>)
        ELSE IF insufficient_stake(data, amount)
          THEN Reject("InsufficientFunds", data, 0, <<"fail:balance">>)
        ELSE IF updated.total_harvested = -1 \/ updated.staked_amount = -1
          THEN Reject("InvalidArgument", data, raw_rewards, <<"fail:overflow">>)
        ELSE IF pool_yot < amount
          THEN Reject("TokenInsufficientFunds", data, raw_rewards,
                      <<"write", "fail:transfer">>)
        ELSE Outcome(Ok, updated, raw_rewards, amount, paid, 0,
                     IF raw_rewards = 0 THEN <<"write", "transfer_yot">>
                     ELSE IF paid > 0 THEN <<"write", "transfer_yot", "transfer_yos">>
                     ELSE <<"write", "transfer_yot", "skip_yos">>)

\* INTEGRATED_LINEAR_FIX / DECIMAL_FIX_V3_COMPLETE process_unstake
process_unstake(caller, is_signer, program_authority, slot, amount) ==
    LET data == accounts[slot]
        time_staked_seconds == i64_sub(now, data.last_harvest_time)
        raw_rewards == build_rewards(data.staked_amount, time_staked_seconds,
                                     config.stake_rate_per_second)
        updated == unstake_update(data, amount, raw_rewards)
        paid == IF raw_rewards > 0 /\ pool_covers(pool_yos, raw_rewards)
                  THEN raw_rewards ELSE 0
    IN  IF ~is_signer
          THEN Reject("MissingRequiredSignature", data, 0, <<"fail:signature">>)
        ELSE IF authority_mismatch(program_authority)
          THEN Reject("InvalidAccountData", data, 0, <<"fail:authority">>)
        ELSE IF ~data.exists
          THEN Reject("BorshIoError", data, 0, <<"fail:no_account">>)
        ELSE IF not_owner(data, caller)
          THEN Reject("InvalidAccountData", data, 0, <<"fail:owner">>)
        ELSE IF insufficient_stake(data, amount)
          THEN Reject("InsufficientFunds", data, 0, <<"fail:balance">>)
        ELSE IF updated.total_harvested = -1 \/ updated.staked_amount = -1
          THEN Reject("InvalidArgument", data, raw_rewards, <<"fail:overflow">>)
        ELSE IF pool_yot < amount
          THEN Reject("TokenInsufficientFunds", data, raw_rewards,
                      <<"write", "fail:transfer">>)
        ELSE Outcome(Ok, updated, raw_rewards, amount, paid, 0,
                     IF raw_rewards = 0 THEN <<"write", "transfer_yot">>
                     ELSE IF paid > 0 THEN <<"write", "transfer_yot", "transfer_yos">>
                     ELSE <<"write", "transfer_yot", "skip_yos">>)

\* ------------------------------------------------------------ the machine
\* ProgramState as process_initialize leaves it
initial_state(rate) ==
    [admin |-> "admin", yot_mint |-> "YOT", yos_mint |-> "YOS",
     stake_rate_per_second |-> rate,
     harvest_threshold |-> Threshold, stake_threshold |-> Threshold,
     unstake_threshold |-> Threshold]

\* the program after process_initialize, before the first staking instruction
Deployed ==
    /\ build \in Builds
    /\ now = 0
    /\ config \in {initial_state(r) : r \in Rates}
    /\ accounts = [s \in Slots |-> EmptyAccount]
    /\ user_yot = [u \in Users |-> IF u = "u1" THEN MaxU64 ELSE 0]
    /\ pool_yot = 0
    /\ pool_yos = RewardPoolFunding
    /\ last = NoOp

\* no reward computation is under way
NoCalc == [p |-> 0, t |-> 0, r |-> 0, out |-> -1, wide |-> <<>>]

\* no books are kept
NoAudit == [on |-> FALSE, total_staked |-> 0, total_unstaked |-> 0]

Init == Deployed /\ audit = NoAudit /\ calc = NoCalc

\* the instruction's record: what was asked, what the accounts held, what came back
Record(op, caller, is_signer, authority_ok, slot, amount, dest, out) ==
    [op |-> op, at |-> now, caller |-> caller, is_signer |-> is_signer,
     authority_ok |-> authority_ok, slot |-> slot, amount |-> amount, dest |-> dest,
     err |-> out.err, pre |-> accounts[slot], pre_pool_yot |-> pool_yot,
     pre_pool_yos |-> pool_yos, rewards |-> out.rewards,
     principal_out |-> out.principal_out, rewards_out |-> out.rewards_out,
     deposit |-> out.deposit, log |-> out.log]

\* the books an observer keeps of the instructions that returned Ok: every
\* amount staked and every amount unstaked (kept only when the audit is on)
Audit(out) ==
    IF audit.on
      THEN [audit EXCEPT !.total_staked = @ + out.deposit,
                         !.total_unstaked = @ + out.principal_out]
      ELSE audit

\* the host commits what the handler wrote and moved
Commit(op, caller, is_signer, authority_ok, slot, amount, dest, out) ==
    /\ accounts' = [accounts EXCEPT ![slot] = out.acct]
    /\ user_yot' = [user_yot EXCEPT ![caller] =
                      @ + out.principal_out - (IF dest = "pool" THEN out.deposit ELSE 0)]
    /\ pool_yot' = pool_yot - out.principal_out + (IF dest = "pool" THEN out.deposit ELSE 0)
    /\ pool_yos' = pool_yos - out.rewards_out
    /\ last' = Record(op, caller, is_signer, authority_ok, slot, amount, dest, out)
    /\ audit' = Audit(out)
    /\ audit'.total_staked <= MaxTotalStaked
    /\ UNCHANGED <<build, now, config, calc>>

Stake ==
    \E caller \in Users, is_signer \in BOOLEAN, slot \in Slots, amount \in Amounts,
       dest \in Dests :
        Commit("Stake", caller, is_signer, TRUE, slot, amount, dest,
               process_stake(caller, is_signer, slot, amount))

UnstakeLibNewFix ==
    /\ build = "lib_new_fix"
    /\ \E caller \in Users, is_signer \in BOOLEAN, program_authority \in AuthorityAccounts,
          slot \in Slots, amount \in Amounts :
        Commit("Unstake", caller, is_signer, program_authority = authority_pda, slot, amount, "none",
               process_unstake_lib_new_fix(caller, is_signer, program_authority, slot, amount))

HarvestLibNewFix ==
    /\ build = "lib_new_fix"
    /\ \E caller \in Users, is_signer \in BOOLEAN, program_authority \in AuthorityAccounts,
          slot \in Slots :
        Commit("Harvest", caller, is_signer, program_authority = authority_pda, slot, 0, "none",
               process_harvest_lib_new_fix(caller, is_signer, program_authority, slot))

Unstake ==
    /\ build # "lib_new_fix"
    /\ \E caller \in Users, is_signer \in BOOLEAN, program_authority \in AuthorityAccounts,
          slot \in Slots, amount \in Amounts :
        Commit("Unstake", caller, is_signer, program_authority = authority_pda, slot, amount, "none",
               process_unstake(caller, is_signer, program_authority, slot, amount))

Harvest ==
    /\ build # "lib_new_fix"
    /\ \E caller \in Users, is_signer \in BOOLEAN, program_authority \in AuthorityAccounts,
          slot \in Slots :
        Commit("Harvest", caller, is_signer, program_authority = authority_pda, slot, 0, "none",
               process_harvest(caller, is_signer, program_authority, slot))

\* the cluster's clock moves on between instructions
Tick ==
    /\ now < MaxTime
    /\ now' = now + 1
    /\ UNCHANGED <<build, config, accounts, user_yot, pool_yot, pool_yos, last, audit, calc>>

Next == Stake \/ UnstakeLibNewFix \/ HarvestLibNewFix \/ Unstake \/ Harvest \/ Tick

Spec == Init /\ [][Next]_vars

\* -------------------------------------- the reward formulas at full width
\* Amounts of the size the program meets (10^9 raw units per token, 10^7 seconds
\* per year) as their decimal digits, lowest first.
RECURSIVE Digits(_)
Digits(n) == IF n < 10 THEN <<n>> ELSE <<n % 10>> \o Digits(n \div 10)

RECURSIVE MulCarry(_, _, _)
MulCarry(ds, k, carry) ==
    IF ds = <<>> THEN (IF carry = 0 THEN <<>> ELSE Digits(carry))
    ELSE LET v == Head(ds) * k + carry
         IN  <<v % 10>> \o MulCarry(Tail(ds), k, v \div 10)

\* the product of a wide amount and k
wide_mul(ds, k) == MulCarry(ds, k, 0)

RECURSIVE DivRem(_, _)
DivRem(ds, k) ==
    IF ds = <<>> THEN [q |-> <<>>, r |-> 0]
    ELSE LET high == DivRem(Tail(ds), k)
             v == high.r * 10 + Head(ds)
         IN  [q |-> <<v \div k>> \o high.q, r |-> v % k]

RECURSIVE Trim(_)
\* without leading zeros (the highest digits come last)
Trim(ds) ==
    IF Len(ds) > 1 /\ ds[Len(ds)] = 0 THEN Trim(SubSeq(ds, 1, Len(ds) - 1)) ELSE ds

\* the truncated quotient of a wide amount by k
wide_div(ds, k) == Trim(DivRem(ds, k).q)

\* `x as u64` of an amount below 10^19 (which is below 2^64): the amount
wide_as_u64(ds) == CASE Len(ds) <= 19 -> ds

\* 365 days
SECONDS_PER_YEAR == 365 * 24 * 60 * 60

\* lib_new_fix process_harvest: u128 product, / 1_000_000, `as u64`
rewards_lib_new_fix_wide(staked_amount, time_staked, stake_rate_per_second) ==
    wide_as_u64(wide_div(wide_mul(wide_mul(Digits(staked_amount), stake_rate_per_second),
                                  time_staked),
                         RATE_DIVISOR))

\* INTEGRATED_LINEAR_FIX: rate / 1_000_000 / 100
rewards_integrated_wide(staked_amount, time_staked_seconds, stake_rate_per_second) ==
    wide_as_u64(wide_div(wide_div(wide_mul(wide_mul(Digits(staked_amount),
                                                    stake_rate_per_second),
                                           time_staked_seconds),
                                  RATE_DIVISOR),
                         PERCENT_DIVISOR))

\* DECIMAL_FIX_V3_COMPLETE calculate_rewards: rate / 1_000_000
calculate_rewards_wide(staked_amount, time_staked_seconds, stake_rate_per_second) ==
    wide_as_u64(wide_div(wide_mul(wide_mul(Digits(staked_amount), stake_rate_per_second),
                                  time_staked_seconds),
                         RATE_DIVISOR))

\* the reward computation of the build's harvest (and unstake) handler
rewards_of_build_wide(staked_amount, time_staked, stake_rate_per_second) ==
    IF build = "lib_new_fix"
      THEN rewards_lib_new_fix_wide(staked_amount, time_staked, stake_rate_per_second)
    ELSE IF build = "integrated_linear_fix"
      THEN rewards_integrated_wide(staked_amount, time_staked, stake_rate_per_second)
    ELSE calculate_rewards_wide(staked_amount, time_staked, stake_rate_per_second)

\* ------------------------------------------------ the reward computation
\* the rates a reward is computed at: the documented rate, half a unit, one unit
\* and a hundred units of reward per staked unit and second
RewardRates == {DOCUMENTED_RATE, RATE_DIVISOR \div 2, RATE_DIVISOR, 100 * RATE_DIVISOR}

\* the reward computation of the build's harvest (and unstake) handler
rewards_of_build(staked_amount, time_staked, stake_rate_per_second) ==
    IF build = "lib_new_fix"
      THEN rewards_lib_new_fix(staked_amount, time_staked, stake_rate_per_second)
      ELSE build_rewards(staked_amount, time_staked, stake_rate_per_second)

\* a staked amount, an elapsed time and a rate are given, nothing is computed yet
InitReward ==
    /\ build \in Builds
    /\ now = 0
    /\ config = initial_state(RATE_DIVISOR)
    /\ accounts = [s \in Slots |-> EmptyAccount]
    /\ user_yot = [u \in Users |-> 0]
    /\ pool_yot = 0
    /\ pool_yos = 0
    /\ last = NoOp
    /\ audit = NoAudit
    /\ calc \in [p : 0..MaxU64, t : 0..MaxElapsed, r : RewardRates, out : {-1},
                  wide : {<<>>}]

\* the handler's reward computation, applied to the given values
ComputeReward ==
    /\ calc.out = -1
    /\ calc' = [calc EXCEPT !.out = rewards_of_build(calc.p, calc.t, calc.r)]
    /\ UNCHANGED <<build, now, config, accounts, user_yot, pool_yot, pool_yos, last, audit>>

\* the handler's reward computation at full width, applied to one token staked
\* for one year at the documented rate
ComputeScenario ==
    /\ calc.wide = <<>>
    /\ calc' = [calc EXCEPT !.wide = rewards_of_build_wide(TOKEN_DECIMALS_FACTOR,
                                                           SECONDS_PER_YEAR,
                                                           DOCUMENTED_RATE)]
    /\ UNCHANGED <<build, now, config, accounts, user_yot, pool_yot, pool_yos, last, audit>>

NextReward == ComputeReward \/ ComputeScenario

SpecReward == InitReward /\ [][NextReward]_vars

\* ------------------------------------------- the machine with books kept
\* Stake and Unstake instructions only, with every amount that was staked and
\* unstaked successfully added up
InitLedger == Deployed /\ audit = [NoAudit EXCEPT !.on = TRUE] /\ calc = NoCalc

NextLedger == Stake \/ UnstakeLibNewFix \/ Unstake \/ Tick

SpecLedger == InitLedger /\ [][NextLedger]_vars

\* ------------------------------------------------- the admin instructions
\* The programs with a ProgramState record and an Initialize instruction:
\*   lib_new_fix      archive/old_fixes/lib_new_fix.rs (staking parameters)
\*   lib              program/src/lib.rs
\*   multihub_swap    program/src/multihub_swap.rs
\*   multihub_swap_v3 program/src/multihub_swap_v3.rs (swap rates)
\* `build` names the program, `config` is its ProgramState account and `last`
\* the last admin instruction.
AdminPrograms == {"lib_new_fix", "lib", "multihub_swap", "multihub_swap_v3"}

\* the keys that call the admin instructions
Admins == {"admin", "mallory"}

\* the mints an Initialize can name
Mints == {"YOT", "YOS"}

\* Pubkey::default(): what a zero-filled account holds as a key
DEFAULT_PUBKEY == "default"

\* lib_new_fix: the program state account as allocated, before process_initialize
ZeroedState ==
    [admin |-> DEFAULT_PUBKEY, yot_mint |-> DEFAULT_PUBKEY, yos_mint |-> DEFAULT_PUBKEY,
     stake_rate_per_second |-> 0, harvest_threshold |-> 0, stake_threshold |-> 0,
     unstake_threshold |-> 0]

\* the swap programs: the program state address before the program created it
EmptyData ==
    [data_len |-> 0, is_initialized |-> FALSE, admin |-> DEFAULT_PUBKEY,
     yot_mint |-> DEFAULT_PUBKEY, yos_mint |-> DEFAULT_PUBKEY]

\* lib.rs / multihub_swap.rs: "Initialize program state"
swap_program_state(admin, yot_mint, yos_mint) ==
    [data_len |-> 1, is_initialized |-> TRUE, admin |-> admin,
     yot_mint |-> yot_mint, yos_mint |-> yos_mint]

\* the program state address is derived from "program_state" (lib.rs,
\* multihub_swap.rs) or from "state" (multihub_swap_v3.rs)
state_seed == IF build = "multihub_swap_v3" THEN "state" ELSE "program_state"

\* find_program_state_address
find_program_state_address == find_program_address(state_seed, "program_id")

\* the account a caller passes as program_state_account is the program's own
\* or another one
StateAccounts == {find_program_state_address,
                  find_program_address(state_seed, "other_program")}

\* "Program state account doesn't match PDA" / "Verify state address"
state_mismatch(program_state_account) ==
    find_program_state_address # program_state_account

\* what an admin handler hands back: its result and the ProgramState it wrote
\* (the one it found when it wrote nothing or returned Err)
AdminOutcome(err, state) == [err |-> err, state |-> state]

\* lib_new_fix.rs process_initialize
process_initialize_lib_new_fix(is_signer, program_state) ==
    IF ~is_signer
      THEN AdminOutcome("MissingRequiredSignature", config)
      ELSE AdminOutcome(Ok, program_state)

\* lib.rs process_initialize
process_initialize_lib(is_signer, program_state_account, program_state) ==
    IF ~is_signer
      THEN AdminOutcome("MissingRequiredSignature", config)
    ELSE IF state_mismatch(program_state_account)
      THEN AdminOutcome("InvalidAuthority", config)
    ELSE IF config.data_len > 0 /\ config.is_initialized
      THEN AdminOutcome("AlreadyInitialized", config)
    ELSE IF config.data_len > 0
      THEN AdminOutcome("AccountAlreadyInUse", config)
    ELSE AdminOutcome(Ok, program_state)

\* multihub_swap.rs process_initialize
process_initialize_multihub_swap(is_signer, program_state_account, program_state) ==
    IF ~is_signer
      THEN AdminOutcome("MissingRequiredSignature", config)
    ELSE IF state_mismatch(program_state_account)
      THEN AdminOutcome("InvalidArgument", config)
    ELSE AdminOutcome(Ok, program_state)

\* multihub_swap_v3.rs: the five rates of its ProgramState
RateFields == {"lp_contribution_rate", "admin_fee_rate", "yos_cashback_rate",
               "swap_fee_rate", "referral_rate"}

\* rates in basis points ("0.1% = 10", "0.3% = 30"): the rate an Initialize
\* gives to the five fields, and the rates an UpdateParameters can supply
FeeRates == {10, 30}

NewRates == {30}

\* multihub_swap_v3.rs: the program state address before the program created it
EmptyDataV3 ==
    [data_len |-> 0, is_initialized |-> FALSE, admin |-> DEFAULT_PUBKEY,
     yot_mint |-> DEFAULT_PUBKEY, yos_mint |-> DEFAULT_PUBKEY,
     rates |-> [f \in RateFields |-> 0]]

\* multihub_swap_v3.rs process_initialize: "Initialize program state"
v3_program_state(admin, yot_mint, yos_mint, rates) ==
    [data_len |-> 1, is_initialized |-> TRUE, admin |-> admin,
     yot_mint |-> yot_mint, yos_mint |-> yos_mint, rates |-> rates]

\* multihub_swap_v3.rs process_initialize
process_initialize_v3(is_signer, program_state_account, program_authority, program_state) ==
    IF ~is_signer
      THEN AdminOutcome("MissingRequiredSignature", config)
    ELSE IF state_mismatch(program_state_account)
      THEN AdminOutcome("InvalidAccountData", config)
    ELSE IF authority_mismatch(program_authority)
      THEN AdminOutcome("InvalidAccountData", config)
    ELSE IF config.data_len > 0 /\ config.is_initialized
      THEN AdminOutcome("AccountAlreadyInitialized", config)
    ELSE AdminOutcome(Ok, program_state)

\* an admin check that lets every key through
not_admin_unchecked(program_state, admin_account) == FALSE

\* "Verify admin is authorized" / "Verify admin"
not_admin(program_state, admin_account) == program_state.admin # admin_account

\* an update that resets the rates it was not given
update_rates_reset(rates, options) ==
    [f \in RateFields |-> IF options[f] = <<>> THEN 0 ELSE options[f][1]]

\* "Update parameters that were provided": an Option is <<>> (None) or <<rate>>
update_rates(rates, options) ==
    [f \in RateFields |-> IF options[f] = <<>> THEN rates[f] ELSE options[f][1]]

\* multihub_swap_v3.rs process_update_parameters
process_update_parameters_v3(admin_account, is_signer, program_state_account, options) ==
    IF state_mismatch(program_state_account)
      THEN AdminOutcome("InvalidAccountData", config)
    ELSE IF config.data_len = 0
      THEN AdminOutcome("BorshIoError", config)
    ELSE IF ~config.is_initialized
      THEN AdminOutcome("UninitializedAccount", config)
    ELSE IF not_admin(config, admin_account)
      THEN AdminOutcome("InvalidAccountData", config)
    ELSE IF ~is_signer
      THEN AdminOutcome("MissingRequiredSignature", config)
    ELSE AdminOutcome(Ok, [config EXCEPT !.rates = update_rates(@, options)])

\* a SetAdmin that leaves the stored admin in place
set_admin_keeps_admin(program_state, new_admin) == program_state

\* multihub_swap_v3.rs process_set_admin: "Update admin"
set_admin(program_state, new_admin) == [program_state EXCEPT !.admin = new_admin]

\* multihub_swap_v3.rs process_set_admin
process_set_admin(admin_account, is_signer, program_state_account, new_admin) ==
    IF state_mismatch(program_state_account)
      THEN AdminOutcome("InvalidAccountData", config)
    ELSE IF config.data_len = 0
      THEN AdminOutcome("BorshIoError", config)
    ELSE IF ~config.is_initialized
      THEN AdminOutcome("UninitializedAccount", config)
    ELSE IF not_admin(config, admin_account)
      THEN AdminOutcome("InvalidAccountData", config)
    ELSE IF ~is_signer
      THEN AdminOutcome("MissingRequiredSignature", config)
    ELSE AdminOutcome(Ok, set_admin(config, new_admin))

\* lib_new_fix.rs process_update_parameters: "Update parameters"
update_parameters(program_state, params) ==
    [program_state EXCEPT !.stake_rate_per_second = params.stake_rate_per_second,
                          !.harvest_threshold = params.harvest_threshold,
                          !.stake_threshold = params.stake_threshold,
                          !.unstake_threshold = params.unstake_threshold]

\* lib_new_fix.rs process_update_parameters
process_update_parameters_lib_new_fix(admin_account, is_signer, params) ==
    IF ~is_signer
      THEN AdminOutcome("MissingRequiredSignature", config)
    ELSE IF not_admin(config, admin_account)
      THEN AdminOutcome("InvalidAccountData", config)
    ELSE AdminOutcome(Ok, update_parameters(config, params))

\* what the last admin instruction was given and how it ended; pre is the
\* program state before it
NoAdminOp == [op |-> "none", caller |-> "none", is_signer |-> FALSE,
              state_ok |-> FALSE, authority_ok |-> FALSE, args |-> <<>>,
              err |-> Ok, pre |-> <<>>]

\* an instruction that returns Err leaves the program state as it was
CommitAdmin(op, caller, is_signer, state_ok, authority_ok, args, out) ==
    /\ config' = IF out.err = Ok THEN out.state ELSE config
    /\ last' = [op |-> op, caller |-> caller, is_signer |-> is_signer,
                state_ok |-> state_ok, authority_ok |-> authority_ok,
                args |-> args, err |-> out.err, pre |-> config]
    /\ UNCHANGED <<build, now, accounts, user_yot, pool_yot, pool_yos, audit, calc>>

\* the parameters an Initialize or UpdateParameters of lib_new_fix.rs carries
StakingParams ==
    [stake_rate_per_second : {DOCUMENTED_RATE, RATE_DIVISOR},
     harvest_threshold : {1, Threshold}, stake_threshold : {1, Threshold},
     unstake_threshold : {1, Threshold}]

\* the mint accounts an Initialize is given
MintPairs == {<<"YOT", "YOS">>, <<"YOS", "YOT">>}

\* lib_new_fix.rs Initialize: "Initialize program state"
InitializeLibNewFix ==
    /\ build = "lib_new_fix"
    /\ \E admin_account \in Admins, is_signer \in BOOLEAN, mints \in MintPairs,
          params \in StakingParams :
         CommitAdmin("Initialize", admin_account, is_signer, TRUE, TRUE,
                     [mints |-> mints, params |-> params],
                     process_initialize_lib_new_fix(is_signer,
                         update_parameters([ZeroedState EXCEPT !.admin = admin_account,
                                                               !.yot_mint = mints[1],
                                                               !.yos_mint = mints[2]],
                                           params)))

\* lib_new_fix.rs UpdateParameters
UpdateParametersLibNewFix ==
    /\ build = "lib_new_fix"
    /\ \E admin_account \in Admins, is_signer \in BOOLEAN, params \in StakingParams :
         CommitAdmin("UpdateParameters", admin_account, is_signer, TRUE, TRUE,
                     [params |-> params],
                     process_update_parameters_lib_new_fix(admin_account, is_signer, params))

\* program/src/lib.rs Initialize
InitializeLib ==
    /\ build = "lib"
    /\ \E admin_account \in Admins, is_signer \in BOOLEAN,
          program_state_account \in StateAccounts, mints \in MintPairs :
         CommitAdmin("Initialize", admin_account, is_signer,
                     ~state_mismatch(program_state_account), TRUE,
                     [mints |-> mints],
                     process_initialize_lib(is_signer, program_state_account,
                         swap_program_state(admin_account, mints[1], mints[2])))

\* program/src/multihub_swap.rs Initialize
InitializeMultihubSwap ==
    /\ build = "multihub_swap"
    /\ \E admin_account \in Admins, is_signer \in BOOLEAN,
          program_state_account \in StateAccounts, mints \in MintPairs :
         CommitAdmin("Initialize", admin_account, is_signer,
                     ~state_mismatch(program_state_account), TRUE,
                     [mints |-> mints],
                     process_initialize_multihub_swap(is_signer, program_state_account,
                         swap_program_state(admin_account, mints[1], mints[2])))

\* program/src/multihub_swap_v3.rs Initialize: the admin is an argument, the
\* payer only signs
InitializeV3 ==
    /\ build = "multihub_swap_v3"
    /\ \E admin \in Admins, is_signer \in BOOLEAN,
          program_state_account \in StateAccounts,
          program_authority \in AuthorityAccounts, rate \in FeeRates :
         CommitAdmin("Initialize", "payer", is_signer,
                     ~state_mismatch(program_state_account),
                     program_authority = authority_pda,
                     [admin |-> admin, rate |-> rate],
                     process_initialize_v3(is_signer, program_state_account,
                         program_authority,
                         v3_program_state(admin, "YOT", "YOS",
                                          [f \in RateFields |-> rate])))

\* program/src/multihub_swap_v3.rs UpdateParameters
UpdateParametersV3 ==
    /\ build = "multihub_swap_v3"
    /\ \E admin_account \in Admins, is_signer \in BOOLEAN,
          program_state_account \in StateAccounts,
          options \in [RateFields -> {<<>>} \cup {<<r>> : r \in NewRates}] :
         CommitAdmin("UpdateParameters", admin_account, is_signer,
                     ~state_mismatch(program_state_account), TRUE,
                     [options |-> options],
                     process_update_parameters_v3(admin_account, is_signer,
                         program_state_account, options))

\* program/src/multihub_swap_v3.rs SetAdmin
SetAdminV3 ==
    /\ build = "multihub_swap_v3"
    /\ \E admin_account \in Admins, is_signer \in BOOLEAN,
          program_state_account \in StateAccounts, new_admin \in Admins :
         CommitAdmin("SetAdmin", admin_account, is_signer,
                     ~state_mismatch(program_state_account), TRUE,
                     [new_admin |-> new_admin],
                     process_set_admin(admin_account, is_signer,
                         program_state_account, new_admin))

\* before the first Initialize: lib_new_fix.rs reads a zero-filled account,
\* the swap programs find no data at their state address
InitAdmin ==
    /\ build \in AdminPrograms
    /\ now = 0
    /\ config = IF build = "lib_new_fix" THEN ZeroedState
                ELSE IF build = "multihub_swap_v3" THEN EmptyDataV3
                ELSE EmptyData
    /\ accounts = [s \in Slots |-> EmptyAccount]
    /\ user_yot = [u \in Users |-> 0]
    /\ pool_yot = 0
    /\ pool_yos = 0
    /\ last = NoAdminOp
    /\ audit = NoAudit
    /\ calc = NoCalc

NextAdmin ==
    \/ InitializeLibNewFix
    \/ UpdateParametersLibNewFix
    \/ InitializeLib
    \/ InitializeMultihubSwap
    \/ InitializeV3
    \/ UpdateParametersV3
    \/ SetAdminV3

SpecAdmin == InitAdmin /\ [][NextAdmin]_vars

\* ------------------------------------------- staking while the rate changes
\* UpdateParameters of lib_new_fix.rs sent to the staking program: the admin, or
\* somebody else, sets stake_rate_per_second and sends the thresholds as they are
UpdateRate ==
    \E admin_account \in Admins, is_signer \in BOOLEAN, rate \in Rates :
        LET params == [stake_rate_per_second |-> rate,
                       harvest_threshold |-> config.harvest_threshold,
                       stake_threshold |-> config.stake_threshold,
                       unstake_threshold |-> config.unstake_threshold]
        IN  CommitAdmin("UpdateParameters", admin_account, is_signer, TRUE, TRUE,
                        [params |-> params],
                        process_update_parameters_lib_new_fix(admin_account, is_signer,
                                                              params))

NextRate == Stake \/ HarvestLibNewFix \/ Unstake \/ Harvest \/ Tick \/ UpdateRate

SpecRate == Init /\ [][NextRate]_vars

\* the Harvest handler of the build
harvest_of_build(caller, is_signer, program_authority, slot) ==
    IF build = "lib_new_fix"
      THEN process_harvest_lib_new_fix(caller, is_signer, program_authority, slot)
      ELSE process_harvest(caller, is_signer, program_authority, slot)

\* the Unstake handler of the build
unstake_of_build(caller, is_signer, program_authority, slot, amount) ==
    IF build = "lib_new_fix"
      THEN process_unstake_lib_new_fix(caller, is_signer, program_authority, slot, amount)
      ELSE process_unstake(caller, is_signer, program_authority, slot, amount)

\* ------------------------------------------------- two staking records
\* Two users, each with tokens to stake and a staking account of its own: every
\* instruction is signed, names the program's authority and pool accounts and
\* the caller's own staking account.
PairSlots == {"a1", "a2"}

\* the staking account of a user
SlotOf(u) == IF u = "u1" THEN "a1" ELSE "a2"

InitPair ==
    /\ build \in Builds
    /\ now = 0
    /\ config \in {initial_state(r) : r \in Rates}
    /\ accounts = [s \in PairSlots |-> EmptyAccount]
    /\ user_yot = [u \in Users |-> Threshold]
    /\ pool_yot = 0
    /\ pool_yos = RewardPoolFunding
    /\ last = NoOp
    /\ audit = NoAudit
    /\ calc = NoCalc

StakePair ==
    \E caller \in Users, amount \in Amounts :
        Commit("Stake", caller, TRUE, TRUE, SlotOf(caller), amount, "pool",
               process_stake(caller, TRUE, SlotOf(caller), amount))

UnstakePair ==
    \E caller \in Users, amount \in Amounts :
        Commit("Unstake", caller, TRUE, TRUE, SlotOf(caller), amount, "none",
               unstake_of_build(caller, TRUE, authority_pda, SlotOf(caller), amount))

HarvestPair ==
    \E caller \in Users :
        Commit("Harvest", caller, TRUE, TRUE, SlotOf(caller), 0, "none",
               harvest_of_build(caller, TRUE, authority_pda, SlotOf(caller)))

NextPair == StakePair \/ UnstakePair \/ HarvestPair \/ Tick

SpecPair == InitPair /\ [][NextPair]_vars

\* ------------------------------------------- the reward pool is refilled
\* program_yos_token_account is a token account like any other: between two
\* instructions of the staking program a transfer of the token program can
\* add to the balance process_harvest and process_unstake read. The handlers
\* are those with a reward leg in Unstake (INTEGRATED_LINEAR_FIX,
\* DECIMAL_FIX_V3_COMPLETE).
FundRewardPool ==
    /\ pool_yos < MaxU64
    /\ pool_yos' = pool_yos + 1
    /\ UNCHANGED <<build, now, config, accounts, user_yot, pool_yot, last, audit, calc>>

\* the instructions as the program's own client sends them: signed by the
\* caller, with the program's authority and the stake pool as accounts
StakeSigned ==
    \E caller \in Users, slot \in Slots, amount \in Amounts :
        Commit("Stake", caller, TRUE, TRUE, slot, amount, "pool",
               process_stake(caller, TRUE, slot, amount))

UnstakeSigned ==
    \E caller \in Users, slot \in Slots, amount \in Amounts :
        Commit("Unstake", caller, TRUE, TRUE, slot, amount, "none",
               process_unstake(caller, TRUE, authority_pda, slot, amount))

HarvestSigned ==
    \E caller \in Users, slot \in Slots :
        Commit("Harvest", caller, TRUE, TRUE, slot, 0, "none",
               process_harvest(caller, TRUE, authority_pda, slot))

InitRefill == Init /\ build # "lib_new_fix"

NextRefill == StakeSigned \/ UnstakeSigned \/ HarvestSigned \/ Tick \/ FundRewardPool

SpecRefill == InitRefill /\ [][NextRefill]_vars

\* ================================================================ claims
\* the staking record after the last instruction
After == accounts[last.slot]

\* the last instruction passed every check the INTEGRATED_LINEAR_FIX and
\* DECIMAL_FIX_V3_COMPLETE handlers make before they read any amount
ValidCaller ==
    /\ last.is_signer
    /\ last.authority_ok
    /\ last.pre.exists
    /\ last.pre.owner = last.caller

\* the last instruction changed no staking record and moved no token
NothingHappened ==
    /\ After = last.pre
    /\ last.principal_out = 0
    /\ last.rewards_out = 0
    /\ last.deposit = 0
    /\ pool_yot = last.pre_pool_yot
    /\ pool_yos = last.pre_pool_yos

\* C1: an Unstake of a handler with a reward leg, by the signing owner, of no
\* more than is staked and than the YOT pool holds, succeeds and moves the full
\* amount out of the pool also when the YOS pool holds less than the reward.
C1_UnstakeDespiteEmptyRewardPool ==
    ( /\ last.op = "Unstake"
      /\ build # "lib_new_fix"
      /\ ValidCaller
      /\ last.pre.staked_amount >= last.amount
      /\ last.pre_pool_yot >= last.amount
      /\ last.pre_pool_yos < last.rewards )
    => ( /\ last.err = Ok
         /\ last.principal_out = last.amount
         /\ pool_yot = last.pre_pool_yot - last.amount )

\* C2: when an Unstake succeeds and skips the reward transfer because the YOS
\* pool holds less than the reward, total_harvested is what it was before.
C2_SkippedRewardNotCounted ==
    ( /\ last.op = "Unstake"
      /\ last.err = Ok
      /\ last.rewards > 0
      /\ last.pre_pool_yos < last.rewards
      /\ last.rewards_out = 0 )
    => After.total_harvested = last.pre.total_harvested

\* C3: in every successful Harvest, and every successful Unstake that pays a
\* reward, the YOS amount moved to the owner is the computed reward and is the
\* amount added to total_harvested.
C3_RewardPaidIsRewardComputed ==
    ( /\ last.err = Ok
      /\ \/ last.op = "Harvest"
         \/ last.op = "Unstake" /\ last.rewards_out > 0 )
    => ( /\ last.rewards_out = last.rewards
         /\ last.pre_pool_yos - pool_yos = last.rewards
         /\ After.total_harvested = last.pre.total_harvested + last.rewards )

\* C4: a successful Stake of at least stake_threshold by the account's owner (or
\* creating the account) leaves staked_amount = staked_amount before + amount and
\* last_stake_time = now.
C4_StakeAddsAmount ==
    ( /\ last.op = "Stake"
      /\ last.err = Ok
      /\ last.amount >= config.stake_threshold
      /\ last.pre.exists => last.pre.owner = last.caller )
    => ( /\ After.staked_amount = last.pre.staked_amount + last.amount
         /\ After.last_stake_time = last.at )

\* C5: a signed Stake of less than stake_threshold returns the threshold error
\* (InvalidArgument) before anything is written: the staking record is as it was
\* (empty if it was empty) and no token moved.
C5_StakeBelowThresholdRejected ==
    ( /\ last.op = "Stake"
      /\ last.is_signer
      /\ last.amount < config.stake_threshold )
    => ( /\ last.err = "InvalidArgument"
         /\ last.log = <<"fail:threshold">>
         /\ NothingHappened )

C5_Witness ==
    /\ last.op = "Stake"
    /\ last.is_signer
    /\ last.amount < config.stake_threshold
    /\ last.amount <= user_yot[last.caller]
    /\ last.err = "InvalidArgument"
    /\ ~After.exists

\* the last Unstake reached the handler's comparison of amount with staked_amount
ReachedStakeCheck ==
    /\ last.op = "Unstake"
    /\ last.is_signer
    /\ last.pre.exists
    /\ IF build = "lib_new_fix"
         THEN last.amount >= config.unstake_threshold
         ELSE last.authority_ok /\ last.pre.owner = last.caller

\* C6: an Unstake of more than staked_amount is rejected with nothing written:
\* staked_amount, last_harvest_time and total_harvested are as they were and no
\* token moved; when the handler reaches its comparison of amount with
\* staked_amount the error is InsufficientFunds.
C6_UnstakeAboveStakeRejected ==
    (last.op = "Unstake" /\ last.amount > last.pre.staked_amount)
    => ( /\ last.err # Ok
         /\ NothingHappened
         /\ ReachedStakeCheck => ( /\ last.err = "InsufficientFunds"
                                   /\ last.log = <<"fail:balance">> ) )

C6_Witness ==
    /\ ReachedStakeCheck
    /\ last.amount > last.pre.staked_amount
    /\ last.pre.staked_amount > 0
    /\ last.err = "InsufficientFunds"

\* C7: in every Unstake handler, an Unstake of less than unstake_threshold is
\* rejected, with no ledger change and no transfer.
C7_UnstakeBelowThresholdRejected ==
    (last.op = "Unstake" /\ last.amount < config.unstake_threshold)
    => (last.err # Ok /\ NothingHappened)

\* the last Harvest reached the handler's comparison of the reward with
\* harvest_threshold
ReachedHarvestThreshold ==
    /\ last.op = "Harvest"
    /\ last.is_signer
    /\ last.pre.exists
    /\ build # "lib_new_fix" => (last.authority_ok /\ last.pre.owner = last.caller)

\* the error a handler returns for a reward below harvest_threshold
BelowThresholdError == IF build = "lib_new_fix" THEN "InvalidArgument" ELSE "InsufficientFunds"

\* C8: a Harvest whose computed reward is below harvest_threshold returns the
\* threshold error before anything is written: last_harvest_time and
\* total_harvested are as they were and no reward moved.
C8_HarvestBelowThresholdRejected ==
    (ReachedHarvestThreshold /\ last.rewards < config.harvest_threshold)
    => ( /\ last.err = BelowThresholdError
         /\ last.log = <<"fail:threshold">>
         /\ NothingHappened )

C8_Witness ==
    /\ ReachedHarvestThreshold
    /\ last.rewards < config.harvest_threshold
    /\ last.rewards > 0
    /\ last.pre_pool_yos >= last.rewards
    /\ last.err = BelowThresholdError

\* C9: a Harvest computing a reward the YOS pool does not cover fails, and
\* last_harvest_time, total_harvested and the pool are as they were.
C9_HarvestFailsOnShortPool ==
    (last.op = "Harvest" /\ last.pre_pool_yos < last.rewards)
    => (last.err # Ok /\ NothingHappened)

\* C10: a Harvest or Unstake whose caller did not sign, or is not the staking
\* record's owner, is rejected with no state change and no transfer.
C10_OnlyTheSigningOwner ==
    ( /\ last.op \in {"Harvest", "Unstake"}
      /\ \/ ~last.is_signer
         \/ last.pre.exists /\ last.pre.owner # last.caller )
    => (last.err # Ok /\ NothingHappened)

\* C11: a Harvest or Unstake whose program_authority account is not the address
\* derived from the seed "authority" and the program id is rejected: the staking
\* record is as it was and nothing left the YOT or the YOS pool.
C11_AuthorityMismatchRejected ==
    (last.op \in {"Harvest", "Unstake"} /\ ~last.authority_ok)
    => (last.err # Ok /\ NothingHappened)

\* an Unstake that every other check would have let through
C11_Witness ==
    /\ last.op = "Unstake"
    /\ ~last.authority_ok
    /\ last.is_signer
    /\ last.pre.exists
    /\ last.pre.owner = last.caller
    /\ last.amount >= config.unstake_threshold
    /\ last.amount <= last.pre.staked_amount
    /\ last.amount <= last.pre_pool_yot
    /\ last.err # Ok

RECURSIVE SumStaked(_)
\* the staked_amount of the staking records in S, added up
SumStaked(S) ==
    IF S = {} THEN 0
    ELSE LET s == CHOOSE x \in S : TRUE
         IN  accounts[s].staked_amount + SumStaked(S \ {s})

\* C12: after any sequence of Stake and Unstake instructions the staking records'
\* staked_amount add up to no more than everything staked successfully minus
\* everything unstaked successfully.
C12_StakedWithinNetDeposits ==
    audit.on => SumStaked(Slots) <= audit.total_staked - audit.total_unstaked

\* stakes and unstakes went through and the records hold exactly the difference
C12_Witness ==
    /\ audit.on
    /\ audit.total_unstaked > 0
    /\ audit.total_staked > audit.total_unstaked
    /\ SumStaked(Slots) = audit.total_staked - audit.total_unstaked

\* the reward the specification's formula gives: floor(p * r * t / scale)
ExactReward(p, t, r) == (p * r * t) \div RATE_DIVISOR

\* C13: the reward the handlers compute is floor(principal * rate * elapsed /
\* 1_000_000) for every principal, rate and elapsed time whose reward fits the
\* integer range.
C13_RewardIsFloorOfProduct ==
    (calc.out # -1 /\ ExactReward(calc.p, calc.t, calc.r) <= MaxU64)
    => calc.out = ExactReward(calc.p, calc.t, calc.r)

\* the divisor the build's reward computation applies to principal * rate * elapsed
build_divisor ==
    IF build = "integrated_linear_fix" THEN RATE_DIVISOR * PERCENT_DIVISOR
                                       ELSE RATE_DIVISOR

\* the reward of (p, t, r) is within the integer range
RewardFits(p, t, r) == (p * r * t) \div build_divisor <= MaxU64

\* the computation under way can be repeated with the principal doubled
CanDoublePrincipal ==
    /\ calc.out # -1
    /\ 2 * calc.p <= MaxU64
    /\ RewardFits(2 * calc.p, calc.t, calc.r)

\* the computation under way can be repeated with the elapsed time doubled
CanDoubleElapsed ==
    /\ calc.out # -1
    /\ 2 * calc.t <= MaxElapsed
    /\ RewardFits(calc.p, 2 * calc.t, calc.r)

\* C14 as stated: doubling the principal, or the elapsed time, exactly doubles
\* the reward.
C14_ExactlyLinear ==
    /\ CanDoublePrincipal
         => rewards_of_build(2 * calc.p, calc.t, calc.r) = 2 * calc.out
    /\ CanDoubleElapsed
         => rewards_of_build(calc.p, 2 * calc.t, calc.r) = 2 * calc.out

\* C14: doubling the principal, or the elapsed time, gives twice the reward or
\* one unit more (the quotient is truncated after the multiplication), whenever
\* the doubled reward is within the integer range.
C14_LinearUpToTruncation ==
    /\ CanDoublePrincipal
         => rewards_of_build(2 * calc.p, calc.t, calc.r) \in {2 * calc.out, 2 * calc.out + 1}
    /\ CanDoubleElapsed
         => rewards_of_build(calc.p, 2 * calc.t, calc.r) \in {2 * calc.out, 2 * calc.out + 1}

\* a reward that truncation keeps from doubling
C14_Witness ==
    /\ CanDoublePrincipal
    /\ CanDoubleElapsed
    /\ rewards_of_build(2 * calc.p, calc.t, calc.r) = 2 * calc.out + 1
    /\ rewards_of_build(calc.p, 2 * calc.t, calc.r) = 2 * calc.out + 1

\* C15: the reward computed for a principal of 0, or over an elapsed time of 0,
\* is exactly 0, at every rate.
C15_ZeroInZeroOut ==
    (calc.out # -1 /\ (calc.p = 0 \/ calc.t = 0)) => calc.out = 0

\* nothing staked, over a positive time at a positive rate
C15_Witness ==
    /\ calc.out = 0
    /\ calc.p = 0
    /\ calc.t > 0
    /\ calc.r > 0

\* C16: when the reward of the given values is beyond the integer range the
\* computation hands back no reward at all (it signals the overflow instead):
\* not a wrapped, a saturated or a zeroed one.
C16_OverflowSignalled ==
    (calc.out # -1 /\ ~RewardFits(calc.p, calc.t, calc.r))
    => calc.out \notin 0..MaxU64

\* 45% of one token, in raw units
FORTY_FIVE_PERCENT == 45 * (TOKEN_DECIMALS_FACTOR \div 100)

\* C17: one token (10^9 raw units) staked for one year (31_536_000 seconds) at
\* the documented rate of 12000 earns 450_000_000 raw units, give or take one.
C17_DocumentedRateIs45PercentAYear ==
    calc.wide # <<>>
    => calc.wide \in {Digits(FORTY_FIVE_PERCENT - 1), Digits(FORTY_FIVE_PERCENT),
                      Digits(FORTY_FIVE_PERCENT + 1)}

\* the program state was initialized before the last admin instruction:
\* lib_new_fix.rs keeps no flag, its state is initialized once an admin is stored
WasInitialized ==
    IF build = "lib_new_fix" THEN last.pre.admin # DEFAULT_PUBKEY
    ELSE last.pre.is_initialized

\* C18: an Initialize that finds the program state already initialized fails,
\* with AlreadyInitialized when its other checks pass, and leaves every field of
\* the program state, the admin among them, as it was, in every Initialize handler
C18_SecondInitializeRejected ==
    (last.op = "Initialize" /\ WasInitialized)
        => /\ last.err # Ok
           /\ config = last.pre
           /\ (last.is_signer /\ last.state_ok /\ last.authority_ok)
                  => last.err \in {"AlreadyInitialized", "AccountAlreadyInitialized"}

\* C19: an UpdateParameters whose caller did not sign, or is not the stored
\* admin, is rejected and leaves every field of the program state unchanged
C19_UpdateByNonAdminRejected ==
    (last.op = "UpdateParameters" /\ (~last.is_signer \/ last.caller # last.pre.admin))
        => (last.err # Ok /\ config = last.pre)

\* a signer other than the stored admin asked an initialized program to update
\* its parameters and was refused
C19_Witness ==
    /\ last.op = "UpdateParameters"
    /\ WasInitialized
    /\ last.is_signer
    /\ last.state_ok
    /\ last.caller # last.pre.admin
    /\ last.err = "InvalidAccountData"

\* C20: a successful UpdateParameters stores the supplied value in every field
\* it supplies and leaves the omitted fields, the admin and the two mints as
\* they were
C20_UpdateWritesOnlySupplied ==
    (last.op = "UpdateParameters" /\ last.err = Ok)
        => /\ config.admin = last.pre.admin
           /\ config.yot_mint = last.pre.yot_mint
           /\ config.yos_mint = last.pre.yos_mint
           /\ IF build = "lib_new_fix"
                THEN /\ config.stake_rate_per_second = last.args.params.stake_rate_per_second
                     /\ config.harvest_threshold = last.args.params.harvest_threshold
                     /\ config.stake_threshold = last.args.params.stake_threshold
                     /\ config.unstake_threshold = last.args.params.unstake_threshold
                ELSE /\ config.is_initialized = last.pre.is_initialized
                     /\ \A f \in RateFields :
                          config.rates[f] = IF last.args.options[f] = <<>>
                                              THEN last.pre.rates[f]
                                              ELSE last.args.options[f][1]

\* an update that supplied one rate with a new value and omitted another went through
C20_Witness ==
    /\ build = "multihub_swap_v3"
    /\ last.op = "UpdateParameters"
    /\ last.err = Ok
    /\ \E f, g \in RateFields :
         /\ last.args.options[f] = <<>>
         /\ last.args.options[g] # <<>>
         /\ last.pre.rates[g] # config.rates[g]

\* why a Harvest failed, read off the step it stopped at: the reward was below
\* harvest_threshold, the YOS pool did not cover the reward (found by the
\* handler's own comparison, or by the token program refusing the transfer), or
\* the caller was not the owner
HarvestFailure(log) ==
    CASE log = <<"fail:threshold">> -> "threshold"
      [] log \in {<<"fail:pool">>, <<"write", "fail:transfer">>} -> "pool"
      [] log = <<"fail:owner">> -> "owner"
      [] OTHER -> "other"

\* C21: a Harvest that failed because the reward was below harvest_threshold, one
\* that failed because the YOS pool was short and one that failed because the
\* caller was not the owner return pairwise different errors: the error of the
\* last failed Harvest differs from the error of any Harvest that would now
\* fail for another of the three reasons.
C21_DistinctErrorKinds ==
    last.op = "Harvest" /\ last.err # Ok /\ HarvestFailure(last.log) # "other"
    => \A caller \in Users, is_signer \in BOOLEAN, program_authority \in AuthorityAccounts :
         LET out == harvest_of_build(caller, is_signer, program_authority, last.slot)
         IN  ( /\ out.err # Ok
               /\ HarvestFailure(out.log) # "other"
               /\ HarvestFailure(out.log) # HarvestFailure(last.log) )
             => out.err # last.err

\* the steps at which a handler's own validation fails: the signature, the
\* owner, a threshold, the staked balance, the authority address
ValidationFailures ==
    {"fail:signature", "fail:owner", "fail:threshold", "fail:balance", "fail:authority"}

\* C23: in Stake, Unstake and Harvest every validation failure (signature,
\* owner, threshold, balance, authority address) comes before the staking record
\* is written: no instruction writes the record and then fails a validation.
C23_ValidationBeforeWrite ==
    \A i \in 1..Len(last.log) :
        last.log[i] \in ValidationFailures
            => \A j \in 1..(i - 1) : last.log[j] # "write"

\* the steps at which a handler asks the token program to move tokens
Transfers == {"transfer_yot", "transfer_yos"}

\* C24: within each Stake, Unstake and Harvest the staking record is updated and
\* written before any token transfer is issued: every transfer of an
\* instruction comes after the instruction's write of the record.
C24_WriteBeforeTransfer ==
    \A i \in 1..Len(last.log) :
        last.log[i] \in Transfers
            => \E j \in 1..(i - 1) : last.log[j] = "write"

\* an Unstake that moved the principal and then the reward
C24_Witness ==
    /\ last.op = "Unstake"
    /\ last.err = Ok
    /\ last.log = <<"write", "transfer_yot", "transfer_yos">>
    /\ After # last.pre

\* the last instruction succeeded and settled a reward: a Harvest, or an Unstake
\* of a handler with a reward leg (process_unstake of lib_new_fix.rs computes
\* and pays no reward)
SettledReward ==
    /\ last.err = Ok
    /\ \/ last.op = "Harvest"
       \/ last.op = "Unstake" /\ build # "lib_new_fix"

\* C25: no elapsed interval is paid twice. After a Harvest or Unstake that
\* settled a reward at clock time t the record's window starts at t: whatever
\* Harvest or Unstake comes next computes its reward over now - t only, and one
\* resubmitted at the same clock value computes reward 0 and moves no reward.
C25_NoIntervalPaidTwice ==
    SettledReward
    => /\ After.last_harvest_time = last.at
       /\ \A caller \in Users, is_signer \in BOOLEAN,
             program_authority \in AuthorityAccounts, amount \in Amounts :
            LET h == harvest_of_build(caller, is_signer, program_authority, last.slot)
                u == unstake_of_build(caller, is_signer, program_authority, last.slot, amount)
                due == rewards_of_build(After.staked_amount, now - last.at,
                                        config.stake_rate_per_second)
            IN  /\ h.rewards \in {0, due}
                /\ u.rewards \in {0, due}
                /\ now = last.at => ( /\ h.rewards = 0 /\ h.rewards_out = 0
                                      /\ u.rewards = 0 /\ u.rewards_out = 0 )

\* a Harvest has just paid a reward and stake remains to earn on
C25_Witness ==
    /\ last.op = "Harvest"
    /\ last.err = Ok
    /\ last.rewards > 0
    /\ now = last.at
    /\ After.staked_amount > 0
    /\ last.pre.last_harvest_time < last.at

\* C26: when the principal transfer of an Unstake (YOT from the pool to the
\* owner) fails, the Unstake fails: no reward transfer is attempted, and
\* staked_amount, last_harvest_time and total_harvested are as they were before
\* the instruction.
C26_PrincipalTransferMandatory ==
    ( /\ last.op = "Unstake"
      /\ \E i \in 1..Len(last.log) : last.log[i] = "fail:transfer" )
    => ( /\ last.err # Ok
         /\ \A i \in 1..Len(last.log) : last.log[i] # "transfer_yos"
         /\ NothingHappened )

\* the owner asked for stake the YOT pool does not hold while a reward was due
C26_Witness ==
    /\ last.op = "Unstake"
    /\ build # "lib_new_fix"
    /\ ValidCaller
    /\ last.amount <= last.pre.staked_amount
    /\ last.pre_pool_yot < last.amount
    /\ last.rewards > 0
    /\ last.pre_pool_yos >= last.rewards
    /\ last.err = "TokenInsufficientFunds"

\* the reward the build's formula gives the record of a slot at the present
\* clock value for a rate
RewardDue(slot, rate) ==
    rewards_of_build(accounts[slot].staked_amount,
                     now - accounts[slot].last_harvest_time, rate)

\* C27: Harvest and Unstake compute the reward with the rate the program state
\* holds when they are called. Once an UpdateParameters has set a rate, the
\* owner's Harvest, and Unstake in a handler with a reward leg, compute the
\* reward at that rate over the whole window since last_harvest_time, the part
\* before the update included; and a Harvest that came as far as its reward
\* computed it at the rate of the program state. The staking record holds no rate.
C27_RateReadAtCallTime ==
    /\ (last.op = "UpdateParameters" /\ last.err = Ok)
       => \A slot \in Slots, amount \in Amounts :
            LET acct == accounts[slot]
                h == harvest_of_build(acct.owner, TRUE, authority_pda, slot)
                u == unstake_of_build(acct.owner, TRUE, authority_pda, slot, amount)
                due == RewardDue(slot, last.args.params.stake_rate_per_second)
            IN  acct.exists
                => /\ h.rewards = due
                   /\ (build # "lib_new_fix" /\ amount <= acct.staked_amount)
                        => u.rewards = due
    /\ ReachedHarvestThreshold
       => last.rewards = rewards_of_build(last.pre.staked_amount,
                                          last.at - last.pre.last_harvest_time,
                                          config.stake_rate_per_second)
    /\ \A slot \in Slots : DOMAIN accounts[slot] = DOMAIN EmptyAccount

\* the rate was changed in the middle of a window, and the reward now due at the
\* new rate is not the one due at the old rate
C27_Witness ==
    /\ last.op = "UpdateParameters"
    /\ last.err = Ok
    /\ \E slot \in Slots :
         /\ accounts[slot].exists
         /\ accounts[slot].last_harvest_time < now
         /\ RewardDue(slot, last.pre.stake_rate_per_second)
              # RewardDue(slot, last.args.params.stake_rate_per_second)
         /\ harvest_of_build(accounts[slot].owner, TRUE, authority_pda, slot).rewards
              = RewardDue(slot, config.stake_rate_per_second)

\* the last Unstake came as far as computing its reward
ReachedUnstakeReward ==
    /\ last.op = "Unstake"
    /\ build # "lib_new_fix"
    /\ ValidCaller
    /\ last.amount <= last.pre.staked_amount

\* C28: Unstake computes its reward on staked_amount as it was before the
\* unstaked amount is subtracted, over the window now - last_harvest_time: the
\* value the build's Harvest computes for the record at that instant.
C28_UnstakeRewardOnFullStake ==
    ReachedUnstakeReward
    => last.rewards = rewards_of_build(last.pre.staked_amount,
                                       last.at - last.pre.last_harvest_time,
                                       config.stake_rate_per_second)

\* part of the stake was taken out, and the reward is not the one the remaining
\* stake would have earned
C28_Witness ==
    /\ ReachedUnstakeReward
    /\ last.err = Ok
    /\ After.staked_amount > 0
    /\ last.rewards > 0
    /\ last.rewards # rewards_of_build(After.staked_amount,
                                       last.at - last.pre.last_harvest_time,
                                       config.stake_rate_per_second)

\* C29: Stake sets last_harvest_time only when it creates the record: the new
\* record has last_harvest_time = now, the caller as owner, and the amount as
\* its stake (counted from 0). A Stake on an existing record leaves
\* last_harvest_time, total_harvested and owner as they were, so that the
\* owner's next Harvest computes its reward on the enlarged stake over the whole
\* window since the previous harvest.
C29_StakeKeepsWindow ==
    (last.op = "Stake" /\ last.err = Ok)
    => IF last.pre.exists
         THEN /\ After.last_harvest_time = last.pre.last_harvest_time
              /\ After.total_harvested = last.pre.total_harvested
              /\ After.owner = last.pre.owner
              /\ harvest_of_build(After.owner, TRUE, authority_pda, last.slot).rewards
                   = rewards_of_build(After.staked_amount,
                                      now - last.pre.last_harvest_time,
                                      config.stake_rate_per_second)
         ELSE /\ After.exists
              /\ After.last_harvest_time = last.at
              /\ After.total_harvested = 0
              /\ After.owner = last.caller
              /\ After.staked_amount = last.amount

\* stake was added to a record in the middle of its window
C29_Witness ==
    /\ last.op = "Stake"
    /\ last.err = Ok
    /\ last.pre.exists
    /\ last.pre.staked_amount > 0
    /\ last.pre.last_harvest_time < last.at
    /\ After.staked_amount > last.pre.staked_amount

\* C30: total_harvested of every staking record never decreases, whatever Stake,
\* Unstake and Harvest instructions follow one another: no step lowers it, wraps
\* it or resets it.
C30_TotalHarvestedMonotone ==
    [][\A slot \in Slots :
          accounts'[slot].total_harvested >= accounts[slot].total_harvested]_vars

\* rewards were booked on top of rewards booked before
C30_Witness ==
    /\ last.op \in {"Harvest", "Unstake"}
    /\ last.err = Ok
    /\ last.pre.total_harvested > 0
    /\ After.total_harvested > last.pre.total_harvested

\* C31: the owner of a staking record is the caller that created it and stays
\* so: no Stake, Unstake or Harvest, whoever sends it, changes the owner of a
\* record that exists, or makes the record vanish.
C31_OwnerImmutable ==
    [][\A slot \in Slots :
          IF accounts[slot].exists
            THEN /\ accounts'[slot].exists
                 /\ accounts'[slot].owner = accounts[slot].owner
            ELSE accounts'[slot].exists
                   => (last'.op = "Stake" /\ accounts'[slot].owner = last'.caller)]_vars

\* somebody who is not the owner staked into the record, and the owner stayed
C31_Witness ==
    /\ last.op = "Stake"
    /\ last.err = Ok
    /\ last.pre.exists
    /\ last.caller # last.pre.owner
    /\ After.owner = last.pre.owner

\* C32: while the clock only moves forward, last_harvest_time of every staking
\* record is at most the present clock value, so that the window
\* now - last_harvest_time is never negative.
C32_WindowNeverNegative ==
    \A slot \in Slots :
        /\ accounts[slot].last_harvest_time <= now
        /\ i64_sub(now, accounts[slot].last_harvest_time) >= 0

\* a Harvest moved last_harvest_time up to the clock, which has moved on since
C32_Witness ==
    /\ last.op = "Harvest"
    /\ last.err = Ok
    /\ After.last_harvest_time = last.at
    /\ After.last_harvest_time > last.pre.last_harvest_time
    /\ now > last.at

\* the staking record an instruction of the other user would leave, and its
\* result: op is "Stake", "Unstake" or "Harvest"
OtherOutcome(op, caller, amount) ==
    IF op = "Stake" THEN process_stake(caller, TRUE, SlotOf(caller), amount)
    ELSE IF op = "Unstake"
      THEN unstake_of_build(caller, TRUE, authority_pda, SlotOf(caller), amount)
    ELSE harvest_of_build(caller, TRUE, authority_pda, SlotOf(caller))

StakingOps == {"Stake", "Unstake", "Harvest"}

\* the last step was an instruction
InstructionStep == last'.op \in StakingOps /\ now' = now

\* C33 as stated: an instruction on one user's staking record leaves the other
\* user's record unchanged, and an instruction on the other record leaves the
\* same record behind whether it comes before or after it (two instructions on
\* different records give the same final records in either order).
C33_RecordsIndependent ==
    [][InstructionStep
       => \A other \in Users \ {last'.caller} :
            /\ accounts'[SlotOf(other)] = accounts[SlotOf(other)]
            /\ last'.err = Ok
                 => \A op \in StakingOps, amount \in Amounts :
                      OtherOutcome(op, other, amount)'.acct
                        = OtherOutcome(op, other, amount).acct]_vars

\* C33, amended: an instruction on one user's staking record leaves the other
\* user's record and wallet unchanged, and an instruction on the other record
\* that ends the same way (Ok, or the same error) before and after it leaves the
\* same record behind: the order of two instructions on different records shows
\* in the records only where a pool balance the first one changed decides
\* whether the second one succeeds. (An instruction that failed changed nothing.)
C33_RecordsIndependentUpToBalances ==
    [][InstructionStep
       => \A other \in Users \ {last'.caller} :
            /\ accounts'[SlotOf(other)] = accounts[SlotOf(other)]
            /\ user_yot'[other] = user_yot[other]
            /\ last'.err = Ok
                 => \A op \in StakingOps, amount \in Amounts :
                      OtherOutcome(op, other, amount)'.err
                          = OtherOutcome(op, other, amount).err
                        => OtherOutcome(op, other, amount)'.acct
                             = OtherOutcome(op, other, amount).acct]_vars

\* one user's Harvest or Unstake went through and changed that user's record
\* while the other user's record holds stake and has a reward to settle: the
\* other's Unstake would go through after it
C33_Witness ==
    /\ last.op \in {"Harvest", "Unstake"}
    /\ last.err = Ok
    /\ After # last.pre
    /\ \E other \in Users \ {last.caller} :
         /\ accounts[SlotOf(other)].exists
         /\ accounts[SlotOf(other)].staked_amount > 0
         /\ OtherOutcome("Unstake", other, Threshold).err = Ok
         /\ OtherOutcome("Unstake", other, Threshold).rewards > 0

\* what an UpdateParameters or a SetAdmin signed by key would return now, sent
\* to the program's own state account
AdminCallOutcome(op, key) ==
    IF op = "UpdateParameters"
      THEN process_update_parameters_v3(key, TRUE, find_program_state_address,
                                        [f \in RateFields |-> <<>>]).err
      ELSE process_set_admin(key, TRUE, find_program_state_address, key).err

\* C34: a SetAdmin succeeds only for the stored admin's signature and then the
\* stored admin is new_admin; an UpdateParameters or SetAdmin is accepted when
\* the stored admin signs it and rejected when any other key sends it, so after
\* the hand-over the former admin is refused and new_admin is accepted, and
\* an UpdateParameters leaves the stored admin as it is
C34_SetAdminHandsOver ==
    (build = "multihub_swap_v3" /\ last.op \in {"SetAdmin", "UpdateParameters"})
        => /\ last.err = Ok => (last.caller = last.pre.admin /\ last.is_signer)
           /\ (WasInitialized /\ last.state_ok /\ last.is_signer
                   /\ last.caller = last.pre.admin) => last.err = Ok
           /\ last.op = "UpdateParameters" => config.admin = last.pre.admin
           /\ (last.op = "SetAdmin" /\ last.err = Ok)
                  => /\ config.admin = last.args.new_admin
                     /\ \A op \in {"SetAdmin", "UpdateParameters"}, key \in Admins :
                          AdminCallOutcome(op, key) = Ok <=> key = last.args.new_admin

\* the admin handed the program over to another key, which is now the only
\* one whose UpdateParameters would go through
C34_Witness ==
    /\ build = "multihub_swap_v3"
    /\ last.op = "SetAdmin"
    /\ last.err = Ok
    /\ last.args.new_admin # last.pre.admin
    /\ AdminCallOutcome("UpdateParameters", last.pre.admin) = "InvalidAccountData"
    /\ AdminCallOutcome("UpdateParameters", last.args.new_admin) = Ok

\* C35: after any sequence of Stake, Unstake and Harvest instructions, failed
\* ones included, the stake pool holds at least the staking records'
\* staked_amount added up, so that every Unstake of no more than staked_amount
\* can be paid in full
C35_PrincipalSolvency == pool_yot >= SumStaked(Slots)

\* the instruction asked the token program for a reward transfer
IssuedRewardTransfer == \E i \in DOMAIN last.log : last.log[i] = "transfer_yos"

\* C36: the reward pool is never overdrawn, whatever the order of the users'
\* Harvest and Unstake instructions: an instruction issues a reward transfer
\* only when the pool balance it found covers the reward it computed; when
\* the pool does not cover the reward (another user's instruction took it
\* first) a Harvest fails and moves nothing, an Unstake skips the reward
C36_RewardPoolNeverOverdrawn ==
    /\ pool_yos >= 0
    /\ last.op \in {"Harvest", "Unstake"}
          => /\ IssuedRewardTransfer
                  => last.pre_pool_yos >= last.rewards
             /\ last.pre_pool_yos < last.rewards
                  => /\ last.rewards_out = 0
                     /\ pool_yos = last.pre_pool_yos
                     /\ last.op = "Harvest" => last.err # Ok

\* the last instruction was an Unstake that went through and left out the
\* reward it had computed
SkippedReward ==
    /\ last.op = "Unstake"
    /\ last.err = Ok
    /\ last.rewards > 0
    /\ last.rewards_out = 0

\* C37: a reward an Unstake skipped is forfeited. The Unstake sets
\* last_harvest_time to its own clock time, so whatever Harvest or Unstake
\* comes next on the record, however long after and whatever the reward pool
\* holds by then, computes its reward over the time since that Unstake only
\* and pays no more than that; sent at the clock time of the Unstake it
\* computes and pays nothing
C37_SkippedRewardForfeited ==
    SkippedReward
    => /\ After.last_harvest_time = last.at
       /\ \A caller \in Users, is_signer \in BOOLEAN,
             program_authority \in AuthorityAccounts, amount \in Amounts :
            LET h == process_harvest(caller, is_signer, program_authority, last.slot)
                u == process_unstake(caller, is_signer, program_authority, last.slot, amount)
                due == build_rewards(After.staked_amount, now - last.at,
                                     config.stake_rate_per_second)
            IN  /\ h.rewards \in {0, due}
                /\ u.rewards \in {0, due}
                /\ h.rewards_out <= due
                /\ u.rewards_out <= due
                /\ now = last.at => (h.rewards_out = 0 /\ u.rewards_out = 0)

\* an Unstake skipped its reward, time has passed, the pool has been refilled
\* and covers the skipped reward together with the one due since, and the
\* owner's Harvest computes the reward due since the Unstake and no more
C37_Witness ==
    /\ SkippedReward
    /\ now > last.at
    /\ pool_yos > last.pre_pool_yos
    /\ LET h == process_harvest(last.caller, TRUE, authority_pda, last.slot)
           due == build_rewards(After.staked_amount, now - last.at,
                                config.stake_rate_per_second)
       IN  /\ due > 0
           /\ h.rewards = due
           /\ pool_yos >= due

\* the reward the last Unstake had to settle: the record's stake over the time
\* since its last_harvest_time
UnstakeReward ==
    build_rewards(last.pre.staked_amount, i64_sub(last.at, last.pre.last_harvest_time),
                  config.stake_rate_per_second)

\* the last instruction was an Unstake of a handler with a reward leg on a
\* record whose total_harvested plus the reward to settle is beyond u64::MAX
UnstakeOverflows ==
    /\ last.op = "Unstake"
    /\ build # "lib_new_fix"
    /\ last.pre.exists
    /\ last.pre.total_harvested + UnstakeReward > MaxU64

====
